---------------------------- MODULE Spec2Model ----------------------------
(***************************************************************************)
(* A model of main.py: the CSV upload endpoint (/api/data), the keyword    *)
(* sentiment extractor, the heuristic coach and chat generators, and the   *)
(* two AI endpoints that try the OpenAI bridge before the heuristics.      *)
(*                                                                         *)
(* Strings of the program are TLA+ strings, handled character by character *)
(* (lower(), strip(), slicing, the `in` substring test and the tokenizer's *)
(* regular expression are computed, not assumed).  Floats are exact        *)
(* fixed-point numbers: an integer number of millionths (Unit == 1.0).     *)
(* The inputs drawn are away from the ties where a double's rounding and   *)
(* exact decimal rounding could part.                                      *)
(***************************************************************************)
EXTENDS Integers, Sequences, FiniteSets, TLC

VARIABLES
    request,    \* the request (or the function's argument) being served
    pc,         \* where the handler is
    model_response, \* ai_coach / ai_chat: the local `model_response`
    calls,      \* the collaborators invoked so far, in order
    response    \* what the caller got back

vars == <<request, pc, model_response, calls, response>>

None == [type |-> "None"]

Min(a, b) == IF a < b THEN a ELSE b

Max(a, b) == IF a > b THEN a ELSE b

(***************************************************************************)
(* Bounds of the model.                                                    *)
(***************************************************************************)
MaxRows == 6          \* small tables have 0..MaxRows data rows
MaxPage == 7          \* page numbers a request may ask for
MaxPerPage == 3       \* small per_page values a request may ask for

(***************************************************************************)
(*                       POST /api/data                                    *)
(***************************************************************************)

\* request.args.get("per_page", 100)
DefaultPerPage == 100

\* request.args.get("page", 1)
DefaultPage == 1

\* A query parameter as sent: absent, or its text.  Text that int() accepts
\* carries the integer it denotes; the other texts are what int() rejects.
Absent == [kind |-> "absent", text |-> "", val |-> 0]

IntArg(n) == [kind |-> "int", text |-> ToString(n), val |-> n]

BadArg(t) == [kind |-> "text", text |-> t, val |-> 0]

\* int(request.args.get(name, default)): the integer, or ValueError.
IntOfArg(arg, default) ==
    CASE arg.kind = "absent" -> [ok |-> TRUE, val |-> default]
      [] arg.kind = "int"    -> [ok |-> TRUE, val |-> arg.val]
      [] OTHER               -> [ok |-> FALSE, val |-> 0]

\* The uploaded bytes, by what the loader looks at: a UTF-8 byte-order mark,
\* a byte that is not valid UTF-8, blank lines, the non-blank lines (the
\* first of them is the header) and whether a later line has more fields
\* than the lines before it.
ByteLen(content) ==
    3 * content.bom + content.invalid + content.blank
      + 4 * content.lines + 2 * content.wide

\* content.decode("utf-8-sig")
Decode(content) ==
    IF content.invalid > 0
    THEN [ok |-> FALSE, text |-> None]
    ELSE [ok |-> TRUE,
          text |-> [blank |-> content.blank, lines |-> content.lines,
                    wide |-> content.wide]]

\* The cell of column "b" in data row i as pandas holds it: every third row
\* has an empty cell there, which read_csv loads as NaN.
CellB(i) == IF i % 3 = 0 THEN "NaN" ELSE ToString(10 * i)

TableRow(i) == [a |-> i, b |-> CellB(i)]

\* pd.read_csv(io.StringIO(decoded)): blank lines are skipped, the first
\* line left is the header, the others are the rows.
ReadCsv(text) ==
    IF text.lines = 0 THEN [ok |-> FALSE, error |-> "EmptyDataError", df |-> <<>>]
    ELSE IF text.wide > 0 THEN [ok |-> FALSE, error |-> "ParserError", df |-> <<>>]
    ELSE [ok |-> TRUE, error |-> "",
          df |-> [i \in 1..(text.lines - 1) |-> TableRow(i)]]

\* _clean_nan
CleanNan(value) == IF value = "NaN" THEN "null" ELSE value

CleanRow(row) == [a |-> row.a, b |-> CleanNan(row.b)]

\* df.iloc[start:end] for start, end >= 0: positions start..end-1 that exist.
Iloc(df, start, end) ==
    SubSeq(df, Min(start, Len(df)) + 1, Min(end, Len(df)))

\* Paginate with a slip: the page number is taken as 0-based.
PaginateOffByOnePage(df, page, per_page) ==
    LET start == page * per_page
        end == start + per_page
        paginated == Iloc(df, start, end)
    IN  [i \in 1..Len(paginated) |-> CleanRow(paginated[i])]

\* lines 400-408: the page's records
Paginate(df, page, per_page) ==
    LET start == (page - 1) * per_page
        end == start + per_page
        paginated == Iloc(df, start, end)
    IN  [i \in 1..Len(paginated) |-> CleanRow(paginated[i])]

ErrorResponse(msg) == [status |-> 400, error |-> msg, body |-> None]

\* Flask's answer to an exception the view does not catch.
ServerError(exc) == [status |-> 500, error |-> "", body |-> [type |-> exc]]

Columns == <<"a", "b">>

\* LoadAndPaginate with per_page defaulting to the table's length.
LoadAndPaginateWholeTable(req, page, per_page) ==
    LET decoded == Decode(req.content)
        parsed == ReadCsv(decoded.text)
        pp == IF req.per_page.kind = "absent" /\ parsed.ok
              THEN Len(parsed.df) ELSE per_page
    IN  IF ByteLen(req.content) = 0 THEN ErrorResponse("Uploaded file is empty.")
        ELSE IF ~decoded.ok THEN ErrorResponse("Unable to decode file as UTF-8 CSV.")
        ELSE IF ~parsed.ok
             THEN ErrorResponse("Failed to parse CSV")
        ELSE [status |-> 200, error |-> "",
              body |-> [total |-> Len(parsed.df), page |-> page, per_page |-> pp,
                        columns |-> Columns,
                        data |-> Paginate(parsed.df, page, pp)]]

\* LoadAndPaginate with a table without data rows refused.
LoadAndPaginateRefuseNoRows(req, page, per_page) ==
    LET decoded == Decode(req.content)
        parsed == ReadCsv(decoded.text)
    IN  IF ByteLen(req.content) = 0 THEN ErrorResponse("Uploaded file is empty.")
        ELSE IF ~decoded.ok THEN ErrorResponse("Unable to decode file as UTF-8 CSV.")
        ELSE IF ~parsed.ok /\ parsed.error = "EmptyDataError"
             THEN ErrorResponse("CSV file is empty.")
        ELSE IF ~parsed.ok THEN ErrorResponse("Failed to parse CSV")
        ELSE IF Len(parsed.df) = 0 THEN ErrorResponse("CSV file is empty.")
        ELSE [status |-> 200, error |-> "",
              body |-> [total |-> Len(parsed.df), page |-> page, per_page |-> per_page,
                        columns |-> Columns,
                        data |-> Paginate(parsed.df, page, per_page)]]

\* lines 386-418: read, decode, parse, slice, answer
LoadAndPaginate(req, page, per_page) ==
    LET decoded == Decode(req.content)
        parsed == ReadCsv(decoded.text)
    IN  IF ByteLen(req.content) = 0 THEN ErrorResponse("Uploaded file is empty.")
        ELSE IF ~decoded.ok THEN ErrorResponse("Unable to decode file as UTF-8 CSV.")
        ELSE IF ~parsed.ok /\ parsed.error = "EmptyDataError"
             THEN ErrorResponse("CSV file is empty.")
        ELSE IF ~parsed.ok THEN ErrorResponse("Failed to parse CSV")
        ELSE [status |-> 200, error |-> "",
              body |-> [total |-> Len(parsed.df), page |-> page, per_page |-> per_page,
                        columns |-> Columns,
                        data |-> Paginate(parsed.df, page, per_page)]]

\* The view function of /api/data as a function of the request.
ParseUploadedCsv(req) ==
    LET page == IntOfArg(req.page, DefaultPage)
        per_page == IntOfArg(req.per_page, DefaultPerPage)
    IN  IF ~req.has_file
        THEN ErrorResponse("Missing file field. Submit multipart form-data with key 'file'.")
        ELSE IF ~page.ok \/ ~per_page.ok THEN ServerError("ValueError")
        ELSE IF page.val < 1 \/ per_page.val < 1
             THEN ErrorResponse("page and per_page must be positive integers.")
        ELSE LoadAndPaginate(req, page.val, per_page.val)

\* The requests drawn.
LineCounts ==
    (0..(MaxRows + 1))
      \cup {DefaultPerPage, DefaultPerPage + 1, DefaultPerPage + 2}

Contents ==
    {c \in [bom : 0..1, invalid : 0..1, blank : 0..1, lines : LineCounts, wide : 0..1] :
        c.wide = 1 => c.lines >= 3}

PageArgs ==
    {Absent, BadArg("abc"), BadArg("1.5"), BadArg(""), IntArg(-1), IntArg(0)}
      \cup {IntArg(n) : n \in 1..MaxPage}

PerPageArgs ==
    {Absent, BadArg("abc"), BadArg("1.5"), BadArg(""), IntArg(-1), IntArg(0)}
      \cup {IntArg(n) : n \in 1..MaxPerPage}
      \cup {IntArg(DefaultPerPage), IntArg(DefaultPerPage + 1)}

NoContent == [bom |-> 0, invalid |-> 0, blank |-> 0, lines |-> 0, wide |-> 0]

CsvRequests ==
    [route : {"/api/data"}, has_file : {TRUE}, content : Contents,
     page : PageArgs, per_page : PerPageArgs]
      \cup [route : {"/api/data"}, has_file : {FALSE}, content : {NoContent},
            page : PageArgs, per_page : PerPageArgs]

InitCsv ==
    /\ request \in CsvRequests
    /\ pc = "received"
    /\ model_response = None
    /\ calls = <<>>
    /\ response = None

parse_uploaded_csv ==
    /\ pc = "received"
    /\ request.route = "/api/data"
    /\ response' = ParseUploadedCsv(request)
    /\ pc' = "responded"
    /\ UNCHANGED <<request, model_response, calls>>

NextCsv == parse_uploaded_csv

SpecCsv == InitCsv /\ [][NextCsv]_vars

(***************************************************************************)
(* Properties of /api/data.                                                *)
(***************************************************************************)
Responded == pc = "responded"

\* The number of data rows of the uploaded table.
TotalRows == request.content.lines - 1

\* The upload decodes and parses into a table (possibly without data rows).
ValidCsv ==
    /\ request.has_file
    /\ request.content.invalid = 0
    /\ request.content.wide = 0
    /\ request.content.lines >= 1

NoPagination == request.page.kind = "absent" /\ request.per_page.kind = "absent"

PositivePagination ==
    /\ request.page.kind = "int" /\ request.page.val >= 1
    /\ request.per_page.kind = "int" /\ request.per_page.val >= 1

\* Row i of the table as the response should show it (null for NaN).
ExpectedRow(i) == [a |-> i, b |-> IF i % 3 = 0 THEN "null" ELSE ToString(10 * i)]

WholeTable == [i \in 1..TotalRows |-> ExpectedRow(i)]

PageData(k) ==
    ParseUploadedCsv([request EXCEPT !.page = IntArg(k)]).body.data

\* Pages lo..hi of the request's table laid end to end.
RECURSIVE PagesBetween(_, _)
PagesBetween(lo, hi) ==
    IF lo > hi THEN <<>>
    ELSE IF lo = hi THEN PageData(lo)
    ELSE LET mid == (lo + hi) \div 2
         IN  PagesBetween(lo, mid) \o PagesBetween(mid + 1, hi)

PagesUpTo(n) == PagesBetween(1, n)

CeilDiv(a, b) == (a + b - 1) \div b

\* C2: for a table of T rows, page k >= 1 and per_page P >= 1 the response
\* holds exactly the rows (k-1)P .. kP-1 that exist, in order, with total T;
\* pages 1..ceil(T/P) laid end to end are the table (no overlap, no gap);
\* a page that starts at or after T is an empty success, not an error.
C2_PageSlice ==
    (Responded /\ ValidCsv /\ PositivePagination)
        => LET k == request.page.val
               P == request.per_page.val
               first == (k - 1) * P
               n == Max(0, Min(k * P, TotalRows) - first)
           IN  /\ response.status = 200
               /\ response.body.total = TotalRows
               /\ response.body.page = k
               /\ response.body.per_page = P
               /\ response.body.data = [j \in 1..n |-> ExpectedRow(first + j)]
               /\ first >= TotalRows => response.body.data = <<>>
               /\ PagesUpTo(CeilDiv(TotalRows, P)) = WholeTable

C2_Witness ==
    /\ Responded /\ ValidCsv /\ PositivePagination
    /\ TotalRows = 5 /\ request.per_page.val = 2 /\ request.page.val = 3
    /\ response.status = 200
    /\ response.body.data = <<ExpectedRow(5)>>

\* Malformed input to /api/data: no file field, an empty file, undecodable
\* bytes, a CSV that does not parse, a page or per_page that is no integer
\* or is less than 1.
Malformed ==
    \/ ~request.has_file
    \/ ByteLen(request.content) = 0
    \/ request.content.invalid > 0
    \/ request.content.lines = 0
    \/ request.content.wide > 0
    \/ request.page.kind = "text"
    \/ request.per_page.kind = "text"
    \/ (request.page.kind = "int" /\ request.page.val < 1)
    \/ (request.per_page.kind = "int" /\ request.per_page.val < 1)

\* C3: every malformed input to /api/data is answered 400 with an error
\* string, never by an unhandled exception (a 500).
C3_Malformed400 ==
    (Responded /\ Malformed)
        => /\ response.status = 400
           /\ response.error # ""

\* page and per_page are absent or integers >= 1
WellFormedPagination ==
    /\ request.page.kind = "absent"
         \/ (request.page.kind = "int" /\ request.page.val >= 1)
    /\ request.per_page.kind = "absent"
         \/ (request.per_page.kind = "int" /\ request.per_page.val >= 1)

HeaderOnly ==
    /\ request.content.invalid = 0
    /\ request.content.lines = 1

LowerLetters == "abcdefghijklmnopqrstuvwxyz"

UpperLetters == "ABCDEFGHIJKLMNOPQRSTUVWXYZ"

CharAt(s, i) == SubSeq(s, i, i)

\* The characters of a string, as a set.
CharsOf(s) == {CharAt(s, i) : i \in 1..Len(s)}

LowerTable ==
    [c \in CharsOf(UpperLetters) |->
        CharAt(LowerLetters, CHOOSE i \in 1..26 : CharAt(UpperLetters, i) = c)]

LowerChar(c) == IF c \in DOMAIN LowerTable THEN LowerTable[c] ELSE c

\* str.lower(), character by character (the halves are lowered apart)
RECURSIVE Lower(_)
Lower(s) ==
    IF Len(s) = 0 THEN ""
    ELSE IF Len(s) = 1 THEN LowerChar(s)
    ELSE LET half == Len(s) \div 2
         IN  Lower(SubSeq(s, 1, half)) \o Lower(SubSeq(s, half + 1, Len(s)))

IsSpace(c) == c \in {" ", "\t", "\n", "\r"}

\* str.strip(): from the first to the last character that is no whitespace
Strip(s) ==
    LET kept == {i \in 1..Len(s) : ~IsSpace(CharAt(s, i))}
    IN  IF kept = {} THEN ""
        ELSE SubSeq(s, CHOOSE i \in kept : \A j \in kept : i <= j,
                       CHOOSE i \in kept : \A j \in kept : i >= j)

\* keyword in s
Contains(keyword, s) ==
    \E i \in 1..(Len(s) - Len(keyword) + 1) :
        SubSeq(s, i, i + Len(keyword) - 1) = keyword

\* any(keyword in s for keyword in keywords)
ContainsAny(keywords, s) == \E keyword \in keywords : Contains(keyword, s)

\* s[:n]
Prefix(s, n) == SubSeq(s, 1, Min(n, Len(s)))

\* A float is an integer number of millionths.
Unit == 1000 * 1000

\* float(n) of a small integer n
FloatOfInt(n) == n * Unit

\* round(value, ndigits) for ndigits in 0..6, ties to even
Round(value, ndigits) ==
    LET q == 10 ^ (6 - ndigits)
        lo == value \div q
        rem == value - lo * q
        up == \/ 2 * rem > q
              \/ (2 * rem = q /\ lo % 2 = 1)
    IN  (IF up THEN lo + 1 ELSE lo) * q

\* _clip without its upper bound
ClipLowOnly(value, low, high) == Max(low, value)

_clip(value, low, high) == Max(low, Min(high, value))

RECURSIVE PadZeros(_, _)
PadZeros(digits, width) ==
    IF Len(digits) >= width THEN digits ELSE PadZeros("0" \o digits, width)

\* f"{value:.{ndigits}f}" for ndigits in 1..6
FormatFixed(value, ndigits) ==
    LET r == Round(value, ndigits)
        a == IF r < 0 THEN 0 - r ELSE r
        frac == (a % Unit) \div (10 ^ (6 - ndigits))
    IN  (IF r < 0 THEN "-" ELSE "") \o ToString(a \div Unit) \o "."
          \o PadZeros(ToString(frac), ndigits)

(***************************************************************************)
(*                       _extract_sentiment                                *)
(***************************************************************************)
\* the character class [a-zA-Z']
TokenChars == CharsOf(LowerLetters) \cup CharsOf(UpperLetters) \cup {"'"}

IsTokenChar(c) == c \in TokenChars

\* re.findall(r"[a-zA-Z']+", s): the maximal runs of token characters,
\* from left to right
FindAll(s) ==
    LET inRun(i) == i >= 1 /\ i <= Len(s) /\ IsTokenChar(CharAt(s, i))
        starts == {i \in 1..Len(s) : inRun(i) /\ ~inRun(i - 1)}
        endOf(i) == CHOOSE j \in i..Len(s) :
                        /\ \A k \in i..j : inRun(k)
                        /\ ~inRun(j + 1)
        nth(k) == CHOOSE i \in starts : Cardinality({j \in starts : j < i}) = k - 1
    IN  [k \in 1..Cardinality(starts) |-> SubSeq(s, nth(k), endOf(nth(k)))]

Tokens(notes) == FindAll(Lower(notes))

positive_words ==
    {"calm", "disciplined", "patient", "confident", "consistent", "plan",
     "focused", "clear"}

negative_words ==
    {"panic", "anxious", "revenge", "frustrated", "fear", "greedy",
     "impulsive", "angry", "stressed", "fomo"}

\* sum(1 for token in tokens if token in words)
CountIn(tokens, words) == Cardinality({i \in 1..Len(tokens) : tokens[i] \in words})

\* lines 64-69
SentimentLabel(score) ==
    IF score > 650000 THEN "positive"
    ELSE IF score < 400000 THEN "negative"
    ELSE "neutral"

_extract_sentiment(notes) ==
    LET tokens == Tokens(notes)
        pos == CountIn(tokens, positive_words)
        neg == CountIn(tokens, negative_words)
        raw == pos - neg
        score == _clip(FloatOfInt(raw + 6) \div 12, 0, Unit)
        evidence == IF pos = 0 /\ neg = 0
                    THEN "Sentiment inferred from neutral wording."
                    ELSE "Positive markers: " \o ToString(pos)
                           \o ", negative markers: " \o ToString(neg) \o "."
    IN  IF tokens = <<>>
        THEN [label |-> "neutral", score |-> Unit \div 2,
              evidence |-> "No trader notes provided."]
        ELSE [label |-> SentimentLabel(score), score |-> Round(score, 2),
              evidence |-> evidence]

\* The words notes are made of, joined by single spaces.
NoteWords == {"Calm", "patient,focused", "panic", "fear-fomo", "42", "plan's", "'"}

MaxNotesWords == 4

AppendWord(text, word) == IF text = "" THEN word ELSE text \o " " \o word

InitSentiment ==
    /\ request = [notes |-> "", words |-> 0]
    /\ pc = "returned"
    /\ model_response = None
    /\ calls = <<>>
    /\ response = _extract_sentiment("")

\* _extract_sentiment called on notes one word longer than the last
extract_sentiment ==
    /\ request.words < MaxNotesWords
    /\ \E word \in NoteWords :
          /\ request' = [notes |-> AppendWord(request.notes, word),
                         words |-> request.words + 1]
          /\ response' = _extract_sentiment(request'.notes)
    /\ UNCHANGED <<pc, model_response, calls>>

NextSentiment == extract_sentiment

SpecSentiment == InitSentiment /\ [][NextSentiment]_vars

\* pos - neg of the notes, counted on the tokens
RawOf(notes) ==
    LET tokens == Tokens(notes)
    IN  CountIn(tokens, positive_words) - CountIn(tokens, negative_words)

\* clip((d + 6) / 12, 0, 1) rounded to 2 decimals, in hundredths, for d in -5..5
SentimentHundredths == <<8, 17, 25, 33, 42, 50, 58, 67, 75, 83, 92>>

HasLetter(s) ==
    \E i \in 1..Len(s) : CharAt(s, i) \in CharsOf(LowerLetters \o UpperLetters)

C7_Result ==
    LET d == RawOf(request.notes)
        hundredths == IF d <= -6 THEN 0
                      ELSE IF d >= 6 THEN 100
                      ELSE SentimentHundredths[d + 6]
    IN  /\ response.score = hundredths * 10000
        /\ response.score >= 0 /\ response.score <= Unit
        /\ response.score > 650000 => response.label = "positive"
        /\ response.score < 400000 => response.label = "negative"
        /\ (response.score >= 400000 /\ response.score <= 650000)
              => response.label = "neutral"
        /\ ~HasLetter(request.notes)
              => response.label = "neutral" /\ response.score = Unit \div 2

C7_Step ==
    RawOf(request'.notes) >= RawOf(request.notes) => response'.score >= response.score

\* C7: the score is clip((pos - neg + 6) / 12, 0, 1) rounded to 2 decimals and
\* lies in [0, 1]; it never decreases when pos - neg does not; the label is
\* positive above 0.65, negative below 0.4, neutral otherwise; notes without
\* an alphabetic token give neutral and 0.5.
C7_Sentiment == [](C7_Result) /\ [][C7_Step]_vars

C7_Witness ==
    /\ RawOf(request.notes) = -7
    /\ response.score = 0
    /\ response.label = "negative"

(***************************************************************************)
(*                       JSON values of a payload                          *)
(***************************************************************************)
\* A value of the JSON body as Python holds it.  A string carries whether
\* float() parses it and to what; a "bigint" is an integer literal beyond
\* the range of a double (such as 1 followed by 400 zeros).
JNull == [type |-> "null", num |-> 0, text |-> "", parses |-> FALSE]

JNumber(micro) == [type |-> "number", num |-> micro, text |-> "", parses |-> TRUE]

JNaN == [type |-> "nan", num |-> 0, text |-> "", parses |-> TRUE]

JBigInt == [type |-> "bigint", num |-> 0, text |-> "", parses |-> FALSE]

JString(t) == [type |-> "string", num |-> 0, text |-> t, parses |-> FALSE]

\* _to_float: float(value), the fallback for NaN, TypeError and ValueError;
\* float() of an integer too large for a double raises OverflowError,
\* which the except clause does not name.
_to_float(value, fallback) ==
    CASE value.type = "number" -> [raised |-> FALSE, val |-> value.num]
      [] value.type = "string" /\ value.parses -> [raised |-> FALSE, val |-> value.num]
      [] value.type = "bigint" -> [raised |-> TRUE, val |-> 0]
      [] OTHER -> [raised |-> FALSE, val |-> fallback]

\* str(payload.get(key, "") or "").strip() for a string or null value
TextOf(value) == IF value.type = "string" THEN Strip(value.text) ELSE ""

\* payload.get("metrics", {}) if isinstance(payload.get("metrics"), dict) else {}
\* followed by metrics.get(key)
MetricOf(payload, key) ==
    IF payload.metrics.isdict THEN payload.metrics.fields[key] ELSE JNull

\* payload.get("insights", []) if isinstance(payload.get("insights"), list) else []
InsightsOf(payload) ==
    IF payload.insights.islist THEN payload.insights.items ELSE <<>>

(***************************************************************************)
(*                       _heuristic_ai_coach                               *)
(***************************************************************************)
_risk_tier(score) ==
    IF score >= FloatOfInt(75) THEN "Aggressive"
    ELSE IF score >= FloatOfInt(45) THEN "Balanced"
    ELSE "Conservative"

\* lines 101-109: what one insight adds to severity_penalty
SeverityWeight(insight) ==
    IF ~insight.isdict THEN 0
    ELSE LET severity == Lower(insight.severity)
         IN  IF severity = "high" THEN FloatOfInt(14)
             ELSE IF severity = "medium" THEN FloatOfInt(6)
             ELSE IF severity = "low" THEN FloatOfInt(2)
             ELSE 0

\* lines 99-109
RECURSIVE SeverityPenalty(_)
SeverityPenalty(insights) ==
    IF insights = <<>> THEN 0
    ELSE SeverityWeight(Head(insights)) + SeverityPenalty(Tail(insights))

StopLossSuggestion ==
    "Keep losses smaller: set your stop before entry and exit quickly when your plan is broken."

SelectiveSuggestion ==
    "Be more selective: take only your best setups and skip trades that do not fully match your checklist."

RewardRiskSuggestion ==
    "Aim for larger winners than losers, such as a 1.5:1 reward-to-risk target."

StableZoneSuggestion ==
    "You are in a stable zone. Keep your rules simple and review your trades weekly for small improvements."

\* lines 123-140 with the stable-zone message appended unconditionally
OptimizationSuggestionsAlwaysStable(avg_loss, avg_profit, win_rate, point_factor) ==
    LET first == IF avg_loss * 10 > 14 * Max(avg_profit, 1)
                 THEN <<StopLossSuggestion>> ELSE <<>>
        second == IF win_rate < FloatOfInt(50) THEN <<SelectiveSuggestion>> ELSE <<>>
        third == IF point_factor < 1200000 THEN <<RewardRiskSuggestion>> ELSE <<>>
    IN  first \o second \o third \o <<StableZoneSuggestion>>

\* lines 123-140.  avg_loss / max(avg_profit, 1e-6) > 1.4 is compared
\* cross-multiplied (the denominator is positive).
OptimizationSuggestions(avg_loss, avg_profit, win_rate, point_factor) ==
    LET first == IF avg_loss * 10 > 14 * Max(avg_profit, 1)
                 THEN <<StopLossSuggestion>> ELSE <<>>
        second == IF win_rate < FloatOfInt(50) THEN <<SelectiveSuggestion>> ELSE <<>>
        third == IF point_factor < 1200000 THEN <<RewardRiskSuggestion>> ELSE <<>>
        rules == first \o second \o third
    IN  IF rules = <<>> THEN <<StableZoneSuggestion>> ELSE rules

LossStreakTrigger ==
    "After 2 losses in a row, you may try to win it back too fast. Take a 15-minute break before the next trade."

FastMarketTrigger ==
    "In fast markets, you may increase size too quickly. Keep your next trade at your normal size."

StressedNotesTrigger ==
    "Your notes sound stressed. Pause and trade only when your checklist is fully met."

\* lines 142-149
FutureTriggers(label) ==
    <<LossStreakTrigger, FastMarketTrigger>>
        \o (IF label = "negative" THEN <<StressedNotesTrigger>> ELSE <<>>)

coaching_prompts ==
    <<"Before this trade, how strong was the setup on a 1 to 5 scale?",
      "Did you choose your size using your rules, or based on emotion?",
      "What exact sign tells you this trade idea is wrong?">>

\* items[:n]
Take(items, n) == SubSeq(items, 1, Min(n, Len(items)))

Raised(exc) == [type |-> "raised", exc |-> exc]

\* lines 111-120
RiskScore(point_factor, win_rate, sentiment_value, severity_penalty, total_trades) ==
    LET profitability_score == _clip((point_factor - 800000) * 35, 0, FloatOfInt(35))
        consistency_score ==
            _clip(((win_rate - FloatOfInt(40)) * 6) \div 10, 0, FloatOfInt(25))
        sentiment_score == _clip(sentiment_value * 20, 0, FloatOfInt(20))
        activity_penalty == IF total_trades > FloatOfInt(600) THEN FloatOfInt(8) ELSE 0
    IN  _clip(profitability_score + consistency_score + sentiment_score
                - severity_penalty - activity_penalty,
              0, FloatOfInt(100))

_heuristic_ai_coach(payload) ==
    LET trader_notes == TextOf(payload.trader_notes)
        total_trades == _to_float(MetricOf(payload, "totalTrades"), 0)
        win_rate == _to_float(MetricOf(payload, "winRate"), 0)
        avg_profit == _to_float(MetricOf(payload, "avgProfit"), 0)
        avg_loss == _to_float(MetricOf(payload, "avgLoss"), 0)
        point_factor == _to_float(MetricOf(payload, "pointFactor"), 0)
        total_pnl == _to_float(MetricOf(payload, "profitLoss"), 0)
        severity_penalty == SeverityPenalty(InsightsOf(payload))
        note_sentiment == _extract_sentiment(trader_notes)
        risk_score == RiskScore(point_factor.val, win_rate.val, note_sentiment.score,
                                severity_penalty, total_trades.val)
        risk_tier == _risk_tier(risk_score)
        summary ==
            "Current profile is " \o Lower(risk_tier) \o " risk with "
              \o FormatFixed(win_rate.val, 1) \o "% win rate and "
              \o FormatFixed(point_factor.val, 2) \o " point factor. "
              \o (IF total_pnl.val >= 0 THEN "Performance is net positive."
                  ELSE "Performance is currently negative.")
    IN  IF \/ total_trades.raised \/ win_rate.raised \/ avg_profit.raised
           \/ avg_loss.raised \/ point_factor.raised \/ total_pnl.raised
        THEN Raised("OverflowError")
        ELSE [type |-> "dict",
              summary |-> summary,
              sentiment |-> note_sentiment,
              risk_profile |->
                  [score |-> Round(risk_score, 1),
                   tier |-> risk_tier,
                   rationale |-> "Score blends profitability, consistency, behavioral severity, and note sentiment."],
              optimization_suggestions |->
                  Take(OptimizationSuggestions(avg_loss.val, avg_profit.val,
                                               win_rate.val, point_factor.val), 3),
              future_bias_triggers |-> Take(FutureTriggers(note_sentiment.label), 3),
              coaching_prompts |-> coaching_prompts,
              source |-> "heuristic"]

\* The payloads drawn.
MaxInsights == 2

WinRates ==
    {JNumber(49900000), JNumber(FloatOfInt(50)), JNumber(81600000),
     JNumber(FloatOfInt(300)), JBigInt}

PointFactors == {JString("abc"), JNumber(1100000), JNumber(1200000), JNumber(2 * Unit)}

\* avgProfit and avgLoss together
TradeSizes ==
    {<<JNumber(0), JNull>>,
     <<JNumber(FloatOfInt(10)), JNumber(FloatOfInt(14))>>,
     <<JNumber(FloatOfInt(10)), JNumber(FloatOfInt(14) + 1)>>,
     <<JNumber(FloatOfInt(-5)), JNumber(2)>>}

\* totalTrades and profitLoss together
Activities ==
    {<<JNumber(FloatOfInt(600)), JNumber(0)>>,
     <<JNumber(FloatOfInt(601)), JNumber(-500000)>>}

MetricsDict(wr, pf, size, act) ==
    [isdict |-> TRUE,
     fields |-> [totalTrades |-> act[1], winRate |-> wr, avgProfit |-> size[1],
                 avgLoss |-> size[2], pointFactor |-> pf, profitLoss |-> act[2]]]

NotADict ==
    [isdict |-> FALSE,
     fields |-> [totalTrades |-> JNull, winRate |-> JNull, avgProfit |-> JNull,
                 avgLoss |-> JNull, pointFactor |-> JNull, profitLoss |-> JNull]]

MetricsSamples ==
    {MetricsDict(wr, pf, size, act) :
        wr \in WinRates, pf \in PointFactors, size \in TradeSizes, act \in Activities}
      \cup {NotADict}

Insight(severity) == [isdict |-> TRUE, severity |-> severity]

NotAnInsight == [isdict |-> FALSE, severity |-> ""]

InsightSamples == {Insight("HIGH"), Insight("medium"), Insight("low"), NotAnInsight}

TraderNotesSamples ==
    {JNull, JString(" Calm patient,focused "), JString("fear-fomo panic"),
     JString("I feel greedy, anxious"), JString("plan clear focused calm 42")}

NoInsights == {[islist |-> TRUE, items |-> <<>>], [islist |-> FALSE, items |-> <<>>]}

InitCoach ==
    /\ request \in [route : {"_heuristic_ai_coach"}, metrics : MetricsSamples,
                    insights : NoInsights, trader_notes : TraderNotesSamples]
    /\ pc = "returned"
    /\ model_response = None
    /\ calls = <<>>
    /\ response = _heuristic_ai_coach(request)

\* severity one step up: low -> medium -> high
RaisedSeverity(insight) ==
    IF insight = Insight("low") THEN Insight("medium")
    ELSE IF insight = Insight("medium") THEN Insight("HIGH")
    ELSE insight

\* _heuristic_ai_coach called again on the payload with one more insight, or
\* with one insight's severity raised
heuristic_ai_coach ==
    /\ request.insights.islist
    /\ \/ /\ Len(request.insights.items) < MaxInsights
          /\ \E insight \in InsightSamples :
                request' = [request EXCEPT !.insights.items = Append(@, insight)]
       \/ \E i \in 1..Len(request.insights.items) :
            /\ RaisedSeverity(request.insights.items[i]) # request.insights.items[i]
            /\ request' = [request EXCEPT !.insights.items[i] = RaisedSeverity(@)]
    /\ response' = _heuristic_ai_coach(request')
    /\ UNCHANGED <<pc, model_response, calls>>

NextCoach == heuristic_ai_coach

SpecCoach == InitCoach /\ [][NextCoach]_vars

(***************************************************************************)
(* Properties of _heuristic_ai_coach.                                      *)
(***************************************************************************)
Returned == response.type = "dict"

\* C6, first half: every payload (negative, huge or non-numeric metrics
\* included) gets a response, and its risk_profile.score lies in [0, 100].
C6_ScoreInRange ==
    /\ Returned
    /\ response.risk_profile.score >= 0
    /\ response.risk_profile.score <= FloatOfInt(100)

\* The severity penalty of a payload by the claim's weights.
ClaimedWeight(insight) ==
    IF ~insight.isdict THEN 0
    ELSE IF insight.severity \in {"high", "HIGH"} THEN 14
    ELSE IF insight.severity = "medium" THEN 6
    ELSE IF insight.severity = "low" THEN 2
    ELSE 0

RECURSIVE ClaimedPenalty(_)
ClaimedPenalty(items) ==
    IF items = <<>> THEN 0
    ELSE ClaimedWeight(Head(items)) + ClaimedPenalty(Tail(items))

\* C6, second half: of two payloads that differ only in their insights, the
\* one with the larger severity penalty never has the greater score.
C6_Step ==
    (/\ response.type = "dict"
     /\ response'.type = "dict"
     /\ ClaimedPenalty(request'.insights.items) >= ClaimedPenalty(request.insights.items))
        => response'.risk_profile.score <= response.risk_profile.score

\* C6: for every payload the returned risk score lies in [0, 100], and a
\* larger severity penalty (an added insight, or one raised low -> medium ->
\* high) never gives a greater score.
C6_RiskScore == [](C6_ScoreInRange) /\ [][C6_Step]_vars

\* The metric as the function uses it (0.0 for what is not a number).
Metric(key) == _to_float(MetricOf(request, key), 0).val

NoDuplicates(items) ==
    \A i, j \in 1..Len(items) : i # j => items[i] # items[j]

IsElem(x, items) == \E i \in 1..Len(items) : items[i] = x

\* avg_loss / max(avg_profit, 1e-6) > 1.4, or win_rate < 50, or
\* point_factor < 1.2
SomeRuleFires ==
    \/ (IF Metric("avgProfit") > 0
        THEN 5 * Metric("avgLoss") > 7 * Metric("avgProfit")
        ELSE 5 * Metric("avgLoss") > 7)
    \/ Metric("winRate") < 50 * Unit
    \/ 10 * Metric("pointFactor") < 12 * Unit

\* C8: optimization_suggestions has 1 to 3 entries without duplicates and
\* holds the stable-zone message exactly when no threshold rule fires;
\* future_bias_triggers has 3 entries when the sentiment label is negative
\* and 2 otherwise; coaching_prompts has 3 entries; source is "heuristic".
C8_ResponseShape ==
    Returned =>
        /\ Len(response.optimization_suggestions) \in 1..3
        /\ NoDuplicates(response.optimization_suggestions)
        /\ IsElem(StableZoneSuggestion, response.optimization_suggestions)
              <=> ~SomeRuleFires
        /\ Len(response.future_bias_triggers)
              = (IF response.sentiment.label = "negative" THEN 3 ELSE 2)
        /\ Len(response.coaching_prompts) = 3
        /\ response.source = "heuristic"

\* all three rules fire, the notes are negative
C8_Witness ==
    /\ Returned
    /\ Len(response.optimization_suggestions) = 3
    /\ Len(response.future_bias_triggers) = 3
    /\ Len(request.insights.items) = 2

\* no rule fires
C8_WitnessStable ==
    /\ Returned
    /\ response.optimization_suggestions = <<StableZoneSuggestion>>

\* The tier mapping applied to a score.
TierOf(score) ==
    IF score >= 75 * Unit THEN "Aggressive"
    ELSE IF score >= 45 * Unit THEN "Balanced"
    ELSE "Conservative"

\* C10: the returned tier is the tier mapping applied to the returned score
\* (rounded to 1 decimal), and the summary names that tier, lowercased.
C10_TierOfReportedScore ==
    Returned =>
        /\ response.risk_profile.tier = TierOf(response.risk_profile.score)
        /\ Contains("Current profile is "
                      \o Lower(TierOf(response.risk_profile.score)) \o " risk",
                    response.summary)

(***************************************************************************)
(*                       _heuristic_chat_reply                             *)
(***************************************************************************)
LossKeywords == {"loss", "losing", "drawdown", "down bad"}

WinKeywords == {"win", "improve", "better", "performance"}

RiskKeywords == {"risk", "size", "position", "lot size"}

EmotionKeywords == {"fomo", "panic", "emotion", "stress", "anxious"}

StrategyKeywords == {"strategy", "setup", "plan", "checklist"}

ConfidenceKeywords == {"confidence", "mindset", "discipline"}

GeneralKeywords == {"weather", "movie", "recipe", "history", "math", "code"}

LossReply ==
    "Focus on loss control first: decide your stop before entry, keep trade size consistent, "
      \o "and take a 15-minute break after two losses in a row."

WinReply ==
    "To improve results, take fewer but better trades and aim for bigger winners than losers, like 1.5:1."

RiskReply ==
    "Set trade size from your max loss rule, not from confidence. Keep size steady and do not increase it after emotional streaks."

EmotionReply ==
    "When emotions spike, use one pause rule: no new trade until you can explain entry, stop, and target in one calm sentence."

StrategyReply ==
    "Keep your plan simple: one setup, one trigger, one stop rule, and one risk size. Simpler plans are easier to follow."

ConfidenceReply ==
    "Build confidence from process, not outcome. Judge yourself by rule-following first, then by profit."

GeneralReply ==
    "I can answer basic general questions, but full ChatGPT-style responses require OpenAI mode. "
      \o "Set OPENAI_API_KEY to enable broad, high-quality answers."

\* lines 292-296
CatchAllReply(message) ==
    LET question_echo == IF message # "" THEN Prefix(message, 120) ELSE "your question"
    IN  "For '" \o question_echo
          \o "', start with a simple rule-based answer: define entry, stop, and target before trading, "
          \o "then review if you followed the plan."

\* lines 266-296: the first keyword group the message matches
GroupReply(message, lower_message) ==
    IF ContainsAny(LossKeywords, lower_message) THEN LossReply
    ELSE IF ContainsAny(WinKeywords, lower_message) THEN WinReply
    ELSE IF ContainsAny(RiskKeywords, lower_message) THEN RiskReply
    ELSE IF ContainsAny(EmotionKeywords, lower_message) THEN EmotionReply
    ELSE IF ContainsAny(StrategyKeywords, lower_message) THEN StrategyReply
    ELSE IF ContainsAny(ConfidenceKeywords, lower_message) THEN ConfidenceReply
    ELSE CatchAllReply(message)

\* lines 266-302 with the general-knowledge test as one more elif after the
\* six groups
ChatReplyGeneralLast(message, lower_message) ==
    IF ContainsAny(LossKeywords \cup WinKeywords \cup RiskKeywords
                     \cup EmotionKeywords \cup StrategyKeywords
                     \cup ConfidenceKeywords, lower_message)
    THEN GroupReply(message, lower_message)
    ELSE IF ContainsAny(GeneralKeywords, lower_message) THEN GeneralReply
    ELSE CatchAllReply(message)

\* lines 266-302: the group's reply, replaced when the message holds a
\* general-knowledge keyword
ChatReply(message, lower_message) ==
    LET reply == GroupReply(message, lower_message)
    IN  IF ContainsAny(GeneralKeywords, lower_message) THEN GeneralReply ELSE reply

\* lines 304-307
ChatContext(win_rate, point_factor, label) ==
    "Current stats: win rate " \o FormatFixed(win_rate, 1) \o "%, point factor "
      \o FormatFixed(point_factor, 2) \o ", note sentiment " \o label \o "."

_heuristic_chat_reply(payload) ==
    LET message == TextOf(payload.message)
        trader_notes == TextOf(payload.trader_notes)
        sentiment == _extract_sentiment(trader_notes)
        point_factor == _to_float(MetricOf(payload, "pointFactor"), 0)
        win_rate == _to_float(MetricOf(payload, "winRate"), 0)
        lower_message == Lower(message)
        reply == ChatReply(message, lower_message)
        context == ChatContext(win_rate.val, point_factor.val, sentiment.label)
    IN  IF point_factor.raised \/ win_rate.raised
        THEN Raised("OverflowError")
        ELSE [type |-> "dict", reply |-> reply \o " " \o context, source |-> "heuristic"]

\* The messages drawn: up to MaxMessageWords words, each after a space.
MaxMessageWords == 3

LongWord == "abcdefghijklmnopqrstuvwxyzabcdefghijklmno"

MessageWords ==
    {"Losing", "winner", "size", "panic", "plan", "mindset", "History?", "hello",
     LongWord}

RECURSIVE JoinWords(_)
JoinWords(words) ==
    IF words = <<>> THEN "" ELSE " " \o Head(words) \o JoinWords(Tail(words))

Messages ==
    {JoinWords(words) :
        words \in UNION {[1..n -> MessageWords] : n \in 1..MaxMessageWords}}

ChatMetricsSamples ==
    {NotADict,
     MetricsDict(JNumber(81600000), JNumber(2 * Unit),
                 <<JNumber(0), JNull>>, <<JNumber(0), JNumber(0)>>),
     MetricsDict(JNumber(49900000), JBigInt,
                 <<JNumber(0), JNull>>, <<JNumber(0), JNumber(0)>>)}

ChatNotesSamples == {JNull, JString("fear-fomo panic")}

\* ai_chat calls _heuristic_chat_reply only with a message that is not blank.
InitChat ==
    /\ request \in [route : {"_heuristic_chat_reply"},
                    message : {JString(m) : m \in Messages},
                    metrics : ChatMetricsSamples,
                    trader_notes : ChatNotesSamples]
    /\ pc = "called"
    /\ model_response = None
    /\ calls = <<>>
    /\ response = None

heuristic_chat_reply ==
    /\ pc = "called"
    /\ request.route = "_heuristic_chat_reply"
    /\ response' = _heuristic_chat_reply(request)
    /\ pc' = "returned"
    /\ UNCHANGED <<request, model_response, calls>>

NextChat == heuristic_chat_reply

SpecChat == InitChat /\ [][NextChat]_vars

(***************************************************************************)
(* Properties of _heuristic_chat_reply.                                    *)
(***************************************************************************)
\* s ends with suffix
EndsWith(s, suffix) ==
    /\ Len(s) >= Len(suffix)
    /\ SubSeq(s, Len(s) - Len(suffix) + 1, Len(s)) = suffix

StartsWith(s, prefix) == Prefix(s, Len(prefix)) = prefix

\* The message as the function reads it, and lowercased.
Said == Strip(request.message.text)

SaidLower == Lower(Said)

\* The reply the claim's priority order gives.
ClaimedReply ==
    IF ContainsAny(GeneralKeywords, SaidLower) THEN GeneralReply
    ELSE IF ContainsAny(LossKeywords, SaidLower) THEN LossReply
    ELSE IF ContainsAny(WinKeywords, SaidLower) THEN WinReply
    ELSE IF ContainsAny(RiskKeywords, SaidLower) THEN RiskReply
    ELSE IF ContainsAny(EmotionKeywords, SaidLower) THEN EmotionReply
    ELSE IF ContainsAny(StrategyKeywords, SaidLower) THEN StrategyReply
    ELSE IF ContainsAny(ConfidenceKeywords, SaidLower) THEN ConfidenceReply
    ELSE "For '" \o SubSeq(Said, 1, Min(Len(Said), 120))
           \o "', start with a simple rule-based answer: define entry, stop, and target before trading, "
           \o "then review if you followed the plan."

ClaimedContext ==
    "Current stats: win rate "
      \o FormatFixed(_to_float(MetricOf(request, "winRate"), 0).val, 1)
      \o "%, point factor "
      \o FormatFixed(_to_float(MetricOf(request, "pointFactor"), 0).val, 2)
      \o ", note sentiment "
      \o _extract_sentiment(TextOf(request.trader_notes)).label \o "."

\* C9: the reply is the general-knowledge notice when the lowercased message
\* holds a general-knowledge keyword, whatever else it matches; otherwise the
\* reply of the first matching group in the order loss, win, risk, emotion,
\* strategy, confidence; otherwise the catch-all echoing at most the first
\* 120 characters of the message.  The reply ends with the context clause
\* and source is "heuristic".
C9_ReplyPriority ==
    (pc = "returned" /\ Returned)
        => /\ response.reply = ClaimedReply \o " " \o ClaimedContext
           /\ EndsWith(response.reply, ClaimedContext)
           /\ response.source = "heuristic"

\* a message that matches the loss group and the win group gets the
\* loss-control reply
C9_Witness ==
    /\ pc = "returned" /\ Returned
    /\ Contains("losing", SaidLower)
    /\ Contains("win", SaidLower)
    /\ ~ContainsAny(GeneralKeywords, SaidLower)
    /\ StartsWith(response.reply, LossReply)

\* the general-knowledge notice overrides a group match
C9_WitnessOverride ==
    /\ pc = "returned" /\ Returned
    /\ Contains("losing", SaidLower)
    /\ Contains("history", SaidLower)
    /\ StartsWith(response.reply, GeneralReply)

\* the catch-all cuts the echo at 120 characters
C9_WitnessEcho ==
    /\ pc = "returned" /\ Returned
    /\ Len(Said) > 120
    /\ StartsWith(response.reply, "For '" \o SubSeq(Said, 1, 120) \o "', start")

(***************************************************************************)
(*                /api/ai/coach and /api/ai/chat                           *)
(***************************************************************************)
\* An environment variable: unset, or set to a value (possibly empty).
EnvUnset == [set |-> FALSE, value |-> ""]

EnvSet(v) == [set |-> TRUE, value |-> v]

\* api_key = os.getenv("OPENAI_API_KEY"); `not api_key`
NoApiKey(env) == ~env.OPENAI_API_KEY.set \/ env.OPENAI_API_KEY.value = ""

\* os.getenv("OPENAI_MODEL", "gpt-4.1-mini")
ModelName(env) ==
    IF env.OPENAI_MODEL.set THEN env.OPENAI_MODEL.value ELSE "gpt-4.1-mini"

\* json.loads(content) gives a dict: of the texts drawn, those that open
\* with a brace (the others are a JSON array, or no JSON at all).
LoadsAsDict(content) ==
    LET text == Strip(content)
    IN  text # "" /\ CharAt(text, 1) = "{"

\* _openai_ai_coach.  service.raises: client.responses.create (or the
\* client's construction) raises; service.output_text: the text of its answer.
_openai_ai_coach(payload, env) ==
    IF NoApiKey(env) THEN None
    ELSE IF ~env.openai_installed THEN None
    ELSE IF env.service.raises THEN None
    ELSE IF ~LoadsAsDict(env.service.output_text) THEN None
    ELSE [type |-> "dict", content |-> env.service.output_text,
          source |-> "openai:" \o ModelName(env)]

\* _openai_chat_reply
_openai_chat_reply(payload, env) ==
    LET reply == Strip(env.service.output_text)
    IN  IF NoApiKey(env) THEN None
        ELSE IF ~env.openai_installed THEN None
        ELSE IF env.service.raises THEN None
        ELSE IF reply = "" THEN None
        ELSE [type |-> "dict", reply |-> reply, source |-> "openai:" \o ModelName(env)]

Call(fn, result) == [fn |-> fn, result |-> result.type]

\* lines 423-425: the body must be a JSON object
ai_coach ==
    /\ pc = "received"
    /\ request.route = "/api/ai/coach"
    /\ IF ~request.body.isdict
       THEN /\ response' = ErrorResponse("Expected JSON body.")
            /\ pc' = "responded"
       ELSE /\ pc' = "bridge"
            /\ UNCHANGED response
    /\ UNCHANGED <<request, model_response, calls>>

\* lines 436-442: the body must be a JSON object with a message that is not blank
ai_chat ==
    /\ pc = "received"
    /\ request.route = "/api/ai/chat"
    /\ IF ~request.body.isdict
       THEN /\ response' = ErrorResponse("Expected JSON body.")
            /\ pc' = "responded"
       ELSE IF TextOf(request.body.payload.message) = ""
       THEN /\ response' = ErrorResponse("Message is required.")
            /\ pc' = "responded"
       ELSE /\ pc' = "bridge"
            /\ UNCHANGED response
    /\ UNCHANGED <<request, model_response, calls>>

\* lines 427 and 444: model_response = _openai_...(payload)
openai_bridge ==
    /\ pc = "bridge"
    /\ LET result == IF request.route = "/api/ai/coach"
                     THEN _openai_ai_coach(request.body.payload, request.env)
                     ELSE _openai_chat_reply(request.body.payload, request.env)
           fn == IF request.route = "/api/ai/coach"
                 THEN "_openai_ai_coach" ELSE "_openai_chat_reply"
       IN  /\ model_response' = result
           /\ calls' = Append(calls, Call(fn, result))
    /\ pc' = "bridged"
    /\ UNCHANGED <<request, response>>

\* lines 428-429 and 445-446: if model_response is None, the heuristic; an
\* exception it raises is not caught, and Flask answers 500
heuristic_fallback ==
    /\ pc = "bridged"
    /\ model_response = None
    /\ LET result == IF request.route = "/api/ai/coach"
                     THEN _heuristic_ai_coach(request.body.payload)
                     ELSE _heuristic_chat_reply(request.body.payload)
           fn == IF request.route = "/api/ai/coach"
                 THEN "_heuristic_ai_coach" ELSE "_heuristic_chat_reply"
       IN  /\ calls' = Append(calls, Call(fn, result))
           /\ IF result.type = "raised"
              THEN /\ response' = ServerError(result.exc)
                   /\ pc' = "responded"
                   /\ UNCHANGED model_response
              ELSE /\ model_response' = result
                   /\ pc' = "bridged"
                   /\ UNCHANGED response
    /\ UNCHANGED request

\* lines 431 and 448: return jsonify(model_response)
respond ==
    /\ pc = "bridged"
    /\ model_response # None
    /\ response' = [status |-> 200, error |-> "", body |-> model_response]
    /\ pc' = "responded"
    /\ UNCHANGED <<request, model_response, calls>>

\* The requests drawn.
ServiceSamples ==
    [raises : {TRUE}, output_text : {""}]
      \cup [raises : {FALSE},
            output_text : {"", "  ", "{\"summary\": \"ok\"}", "[1, 2]", "Sure: trade less."}]

Environments ==
    [OPENAI_API_KEY : {EnvUnset, EnvSet(""), EnvSet("sk-test")},
     OPENAI_MODEL : {EnvUnset, EnvSet("gpt-4o")},
     openai_installed : BOOLEAN,
     service : ServiceSamples]

AiPayloads ==
    [message : {JNull, JString("   "), JString("How do I improve?"),
                JString("what is the weather")},
     metrics : ChatMetricsSamples,
     insights : {[islist |-> TRUE, items |-> <<Insight("HIGH")>>]},
     trader_notes : {JString("fear-fomo panic")}]

NoPayload ==
    [message |-> JNull, metrics |-> NotADict,
     insights |-> [islist |-> FALSE, items |-> <<>>], trader_notes |-> JNull]

AiBodies ==
    [isdict : {TRUE}, payload : AiPayloads]
      \cup {[isdict |-> FALSE, payload |-> NoPayload]}

InitAi ==
    /\ request \in [route : {"/api/ai/coach", "/api/ai/chat"}, body : AiBodies,
                    env : Environments]
    /\ pc = "received"
    /\ model_response = None
    /\ calls = <<>>
    /\ response = None

NextAi == ai_coach \/ ai_chat \/ openai_bridge \/ heuristic_fallback \/ respond

SpecAi == InitAi /\ [][NextAi]_vars

(***************************************************************************)
(* Properties of the AI endpoints.                                         *)
(***************************************************************************)
\* The request is valid: a JSON object and, for chat, a message not blank.
ValidAiRequest ==
    /\ request.body.isdict
    /\ request.route = "/api/ai/chat" => TextOf(request.body.payload.message) # ""

BridgeFns == {"_openai_ai_coach", "_openai_chat_reply"}

HeuristicFns == {"_heuristic_ai_coach", "_heuristic_chat_reply"}

CallsOf(fns) == {i \in 1..Len(calls) : calls[i].fn \in fns}

\* The bridge was called and returned no result.
BridgeGaveNothing ==
    \E i \in CallsOf(BridgeFns) : calls[i].result = "None"

\* C5: a valid request calls the bridge exactly once, before the heuristic;
\* the heuristic runs exactly when the bridge returned nothing; the request
\* ends with a response whose source is "heuristic" exactly when the bridge
\* returned nothing and "openai:<model>" otherwise.  An invalid request is
\* answered 400 with neither the bridge nor the heuristic called.
C5_BridgeThenHeuristic ==
    Responded =>
        IF ValidAiRequest
        THEN /\ Cardinality(CallsOf(BridgeFns)) = 1
             /\ calls[1].fn \in BridgeFns
             /\ (CallsOf(HeuristicFns) # {}) <=> BridgeGaveNothing
             /\ Cardinality(CallsOf(HeuristicFns)) <= 1
             /\ response.status = 200
             /\ (response.body.source = "heuristic") <=> BridgeGaveNothing
             /\ ~BridgeGaveNothing
                  => response.body.source = "openai:" \o ModelName(request.env)
        ELSE /\ response.status = 400
             /\ calls = <<>>

=============================================================================
